---- MODULE Spec2Model ----
(***************************************************************************)
(* A model of hivesrv's HTTP/1.1 connection engine                         *)
(* (src/src/hive/servers/tcp/http/http11.py): one HTTP11Protocol with its  *)
(* h11 parser, its FlowControl, its transport, the RequestResponseCycle    *)
(* objects it spawns and the handler task of each cycle.                   *)
(*                                                                         *)
(* Every asyncio callback (data_received, connection_lost, pause_writing,  *)
(* the keep-alive timer) and every run of a handler task between two       *)
(* points where it really suspends is one action: the event loop is        *)
(* single-threaded, so such a run is atomic.                               *)
(***************************************************************************)
EXTENDS Integers, Sequences, FiniteSets, TLC

\* ------------------------------------------------------------------ bounds
MaxReqs == 2      \* request heads the client sends on the connection
MaxBody == 1      \* body bytes of one request
MaxChunks == 1    \* http.response.body events with more_body = True per cycle
MaxReqsBody == 1  \* request heads the client sends under SpecBody
MaxLongBody == 3  \* body bytes of a request under SpecBody
MaxReqsShutdown == 1   \* request heads the client sends under SpecShutdown
MaxOtherReqs == 2      \* requests the second connection receives
MaxReqsUpgrade == 1    \* request heads the client sends before an upgrade request
SegmentBytes == 65536  \* bytes of one unit of a request body (one read of the transport)

\* ------------------------------------------------------- program constants
HIGH_WATER_LIMIT == 65536

NoLength == 0 - 1   \* a response without Content-Length (h11 frames it chunked)
NoCycle == 0        \* HTTP11Protocol.cycle is None
ThisConn == 1       \* the HTTP11Protocol modelled in full, in server_state.connections
OtherConn == 2      \* the second HTTP11Protocol

VARIABLES
    conn,           \* the h11.Connection of the protocol
    proto,          \* HTTP11Protocol: cycle, timeout_keep_alive_task
    cycles,         \* the RequestResponseCycle objects, in creation order
    tasks,          \* the task running run_asgi of each cycle
    flow,           \* FlowControl
    transport,      \* the asyncio transport, with everything written to it
    server_state,   \* TCPServerState
    client,         \* what the peer has sent so far
    ret,            \* what the call made in the last step returned to its caller
    server,         \* TCPServer: its latches, its listener, where serve() is
    other           \* a second connection of the same server, in outline

vars == <<conn, proto, cycles, tasks, flow, transport, server_state, client, ret,
          server, other>>

\* --------------------------------------------------------------- messages
\* Bytes on the wire from the client, in parsed units.
\* A request head (request r, with or without Connection: close and Expect:
\* 100-continue, announcing len body bytes) and the i-th body byte of request r.
\* A body byte stands for the SegmentBytes bytes that one read of the
\* transport hands to data_received.
\* upgrade: "none" without the token upgrade in the Connection header, else
\* the value of the Upgrade header ("absent": there is no such header).
HeadToken(r, close, len, expect) ==
    [t |-> "head", r |-> r, i |-> 0, close |-> close, len |-> len, expect |-> expect,
     upgrade |-> "none"]
ByteToken(r, i) ==
    [t |-> "byte", r |-> r, i |-> i, close |-> FALSE, len |-> 0, expect |-> FALSE,
     upgrade |-> "none"]
\* A request head with Connection: upgrade
UpgradeToken(r, value) == [HeadToken(r, FALSE, 0, FALSE) EXCEPT !.upgrade = value]
UpgradeValues == {"websocket", "h2c", "absent"}

\* ASGI send events.
StartMsg(status, close, cl) ==
    [type |-> "http.response.start", status |-> status, close |-> close,
     cl |-> cl, n |-> 0, more |-> FALSE]
BodyMsg(n, more) ==
    [type |-> "http.response.body", status |-> 0, close |-> FALSE,
     cl |-> NoLength, n |-> n, more |-> more]
\* The canned 500 of send_500_response.
Start500 == StartMsg(500, TRUE, NoLength)
Body500 == BodyMsg(21, FALSE)
OtherMsg ==
    [type |-> "http.response.trailers", status |-> 0, close |-> FALSE,
     cl |-> NoLength, n |-> 0, more |-> FALSE]

\* What the handler may pass to send(): a start with or without Connection:
\* close and with or without a Content-Length (of MaxChunks + 1 bytes), body
\* events of one byte, and an event of another type.
AppMsgs ==
    {StartMsg(200, c, l) : c \in BOOLEAN, l \in {NoLength, MaxChunks + 1}}
    \cup {BodyMsg(1, m) : m \in BOOLEAN}
    \cup {OtherMsg}

\* h11 events the server sends.
H11Event(type, close, cl, n) == [type |-> type, close |-> close, cl |-> cl, n |-> n]

\* One transport.write call: c is the cycle that wrote (NoCycle: the engine).
Wrote(c, k, s, close) == [c |-> c, k |-> k, s |-> s, close |-> close]

\* ------------------------------------------------------------------- h11
\* h11 ConnectionState._fire_state_triggered_transitions (the server never
\* accepts an upgrade proposal, so no side reaches MIGHT_SWITCH_PROTOCOL with
\* the proposal pending past the request). First the rule for a disabled
\* keep-alive, then the table STATE_TRIGGERED_TRANSITIONS.
KeepAliveDisabledRule(c) ==
    IF ~c.keep_alive
    THEN [c EXCEPT !.their_state = IF @ = "DONE" THEN "MUST_CLOSE" ELSE @,
                   !.our_state = IF @ = "DONE" THEN "MUST_CLOSE" ELSE @]
    ELSE c

StateTriggeredRule(c) ==
    IF <<c.their_state, c.our_state>>
         \in {<<"CLOSED", "DONE">>, <<"CLOSED", "IDLE">>, <<"ERROR", "DONE">>}
    THEN [c EXCEPT !.our_state = "MUST_CLOSE"]
    ELSE IF <<c.their_state, c.our_state>>
              \in {<<"DONE", "CLOSED">>, <<"IDLE", "CLOSED">>, <<"DONE", "ERROR">>}
    THEN [c EXCEPT !.their_state = "MUST_CLOSE"]
    ELSE c

RECURSIVE FireStateTriggered(_)
FireStateTriggered(c) ==
    LET c2 == StateTriggeredRule(KeepAliveDisabledRule(c))
    IN IF c2 = c THEN c ELSE FireStateTriggered(c2)

\* h11 ConnectionState.process_keep_alive_disabled, for an event that carries
\* Connection: close
DisableKeepAlive(c, close) ==
    IF close THEN FireStateTriggered([c EXCEPT !.keep_alive = FALSE]) ELSE c

\* h11 EVENT_TRIGGERED_TRANSITIONS[SERVER]: the state after the server sends
\* an event, "INVALID" if the event is not allowed in the state.
ServerTransition(s, type) ==
    CASE s = "IDLE" /\ type = "Response" -> "SEND_BODY"
      [] s = "IDLE" /\ type = "ConnectionClosed" -> "CLOSED"
      [] s = "SEND_RESPONSE" /\ type = "InformationalResponse" -> "SEND_RESPONSE"
      [] s = "SEND_RESPONSE" /\ type = "Response" -> "SEND_BODY"
      [] s = "SEND_BODY" /\ type = "Data" -> "SEND_BODY"
      [] s = "SEND_BODY" /\ type = "EndOfMessage" -> "DONE"
      [] s \in {"DONE", "MUST_CLOSE", "CLOSED"} /\ type = "ConnectionClosed" -> "CLOSED"
      [] OTHER -> "INVALID"

\* h11 Connection._process_error(role)
ProcessError(c, role) ==
    FireStateTriggered(IF role = "SERVER"
                       THEN [c EXCEPT !.our_state = "ERROR", !.wlen = NoLength]
                       ELSE [c EXCEPT !.their_state = "ERROR"])

\* The result of Connection.send: ok = FALSE is LocalProtocolError.
Sent(ok, c) == [ok |-> ok, conn |-> c]

\* h11 Connection._process_event for an event the server may send in its state
ProcessEvent(c, ev) ==
    [DisableKeepAlive(
        FireStateTriggered([c EXCEPT !.our_state = ServerTransition(@, ev.type)]),
        ev.type = "Response" /\ ev.close)
       EXCEPT !.waiting100 =
                IF ev.type \in {"Response", "InformationalResponse"} THEN FALSE ELSE @]

\* The body writer of h11 (wlen: the bytes still to send, there only in
\* SEND_BODY) checks the declared Content-Length.
BodyWriter(c, ev) ==
    CASE ev.type = "Response" -> Sent(TRUE, [c EXCEPT !.wlen = ev.cl])
      [] ev.type = "Data" ->
           IF c.wlen = NoLength THEN Sent(TRUE, c)
           ELSE IF c.wlen - ev.n < 0 THEN Sent(FALSE, ProcessError(c, "SERVER"))
           ELSE Sent(TRUE, [c EXCEPT !.wlen = @ - ev.n])
      [] ev.type = "EndOfMessage" ->
           IF c.wlen \in {NoLength, 0} THEN Sent(TRUE, [c EXCEPT !.wlen = NoLength])
           ELSE Sent(FALSE, ProcessError(c, "SERVER"))
      [] OTHER -> Sent(TRUE, c)

\* h11 Connection.send(event)
ConnSend(c, ev) ==
    IF c.our_state = "ERROR" THEN Sent(FALSE, c)
    ELSE IF ServerTransition(c.our_state, ev.type) = "INVALID"
    THEN Sent(FALSE, ProcessError(c, "SERVER"))
    ELSE BodyWriter(ProcessEvent(c, ev), ev)

\* h11 Connection.start_next_cycle(), called only with both sides DONE.
StartNextCycle(c) == [c EXCEPT !.our_state = "IDLE", !.their_state = "IDLE"]

\* The longest prefix of body bytes of the receive buffer, at most n long.
RECURSIVE BytePrefix(_, _)
BytePrefix(buf, n) ==
    IF n = 0 \/ buf = <<>> \/ Head(buf).t # "byte" THEN <<>>
    ELSE <<Head(buf)>> \o BytePrefix(Tail(buf), n - 1)

Drop(s, n) == SubSeq(s, n + 1, Len(s))

NoToken == ByteToken(0, 0)
Event(ev, c, head, data) == [ev |-> ev, conn |-> c, head |-> head, data |-> data]

\* The client's Request event for the head h at the front of the buffer
RequestEvent(c, h) ==
    Event("Request",
          DisableKeepAlive(
            FireStateTriggered([c EXCEPT !.rbuf = Tail(@), !.rem = h.len,
                                         !.their_state = "SEND_BODY",
                                         !.our_state = "SEND_RESPONSE",
                                         !.waiting100 = @ \/ h.expect]),
            h.close),
          h, <<>>)

\* The client's Data event for the body bytes d at the front of the buffer
DataEvent(c, d) ==
    Event("Data",
          [c EXCEPT !.rbuf = Drop(@, Len(d)), !.rem = @ - Len(d), !.waiting100 = FALSE],
          NoToken, d)

\* RemoteProtocolError, which leaves their_state = ERROR
ErrorEvent(c) == Event("ERROR", ProcessError(c, "CLIENT"), NoToken, <<>>)

\* h11 Connection.next_event(): the event and the connection after it.
NextEvent(c) ==
    CASE c.their_state = "ERROR" -> ErrorEvent(c)
      [] c.their_state = "DONE" /\ c.rbuf # <<>> -> Event("PAUSED", c, NoToken, <<>>)
      [] c.their_state = "IDLE" ->
           IF c.rbuf = <<>> THEN Event("NEED_DATA", c, NoToken, <<>>)
           ELSE IF Head(c.rbuf).t # "head" \/ c.our_state # "IDLE" THEN ErrorEvent(c)
           ELSE RequestEvent(c, Head(c.rbuf))
      [] c.their_state = "SEND_BODY" ->
           IF c.rem = 0
           THEN Event("EndOfMessage",
                      FireStateTriggered([c EXCEPT !.their_state = "DONE",
                                                   !.waiting100 = FALSE]),
                      NoToken, <<>>)
           ELSE IF c.rbuf = <<>> THEN Event("NEED_DATA", c, NoToken, <<>>)
           ELSE IF BytePrefix(c.rbuf, c.rem) = <<>> THEN ErrorEvent(c)
           ELSE DataEvent(c, BytePrefix(c.rbuf, c.rem))
      [] OTHER -> \* DONE with nothing buffered, MUST_CLOSE, CLOSED: expect nothing
           IF c.rbuf = <<>> THEN Event("NEED_DATA", c, NoToken, <<>>) ELSE ErrorEvent(c)

\* ---------------------------------------------------------------- engine
\* The operators below take and return the whole program state w, a record
\* of the variables plus exc: an exception is propagating out of the call,
\* and flow_calls: the calls FlowControl has made to the transport in the step.
\* op: "send" or "receive" (a call of the handler of cycle c) or "none";
\* res: how the call ended; body, more_body: the http.request message of a
\* receive; wrote: the step wrote to the transport.
Ret(op, c, res, body, more_body) ==
    [op |-> op, c |-> c, res |-> res, body |-> body, more_body |-> more_body,
     wrote |-> FALSE]
NoRet == Ret("none", 0, "none", <<>>, FALSE)

World ==
    [conn |-> conn, proto |-> proto, cycles |-> cycles, tasks |-> tasks,
     flow |-> flow, transport |-> transport, server_state |-> server_state,
     server |-> server, other |-> other, exc |-> FALSE, ret |-> NoRet,
     flow_calls |-> 0]

Commit(w) ==
    /\ conn' = w.conn
    /\ proto' = w.proto
    /\ cycles' = w.cycles
    /\ tasks' = w.tasks
    /\ flow' = w.flow
    /\ transport' = w.transport
    /\ server_state' = w.server_state
    /\ server' = w.server
    /\ other' = w.other
    /\ ret' = [w.ret EXCEPT !.wrote = Len(w.transport.written) > Len(transport.written)]

\* transport.write(output)
Write(w, e) == [w EXCEPT !.transport.written = Append(@, e)]
\* transport.close()
Close(w) == [w EXCEPT !.transport.closing = TRUE]
\* transport.is_closing()
is_closing(w) == w.transport.closing \/ w.transport.lost

\* self.conn.send(event): the connection moves; a LocalProtocolError propagates.
ConnSent(w, r) == [w EXCEPT !.conn = r.conn, !.exc = ~r.ok]
conn_send(w, ev) == ConnSent(w, ConnSend(w.conn, ev))

\* Statements that follow a conn.send are skipped when it raised.
WriteUnlessRaised(w, e) == IF w.exc THEN w ELSE Write(w, e)
CloseUnlessRaised(w) == IF w.exc THEN w ELSE Close(w)
\* output = self.conn.send(event); self.transport.write(output)
SendAndWrite(w, ev, e) == IF w.exc THEN w ELSE WriteUnlessRaised(conn_send(w, ev), e)

\* FlowControl
\* resume_reading that tells the transport and leaves read_paused set
resume_reading_KeepFlag(w) ==
    IF w.flow.read_paused
    THEN [w EXCEPT !.transport.paused = FALSE, !.flow_calls = @ + 1]
    ELSE w

\* pause_reading without the test of read_paused
pause_reading_Unguarded(w) ==
    [w EXCEPT !.flow.read_paused = TRUE, !.transport.paused = TRUE,
              !.flow_calls = @ + 1]

pause_reading(w) ==
    IF ~w.flow.read_paused
    THEN [w EXCEPT !.flow.read_paused = TRUE, !.transport.paused = TRUE,
                   !.flow_calls = @ + 1]
    ELSE w

resume_reading(w) ==
    IF w.flow.read_paused
    THEN [w EXCEPT !.flow.read_paused = FALSE, !.transport.paused = FALSE,
                   !.flow_calls = @ + 1]
    ELSE w

pause_writing(w) ==
    IF ~w.flow.write_paused
    THEN [w EXCEPT !.flow.write_paused = TRUE, !.flow.is_writable_event = FALSE]
    ELSE w

\* resume_writing with an event that releases one waiter only, the task of
\* the oldest cycle.
resume_writing_WakesOne(w) ==
    IF w.flow.write_paused
    THEN [w EXCEPT !.flow.write_paused = FALSE, !.flow.is_writable_event = TRUE,
                   !.tasks = [c \in DOMAIN @ |->
                                IF /\ @[c].pc \in {"drain", "drain_500_start", "drain_500_body"}
                                   /\ \A d \in 1..(c - 1) : @[d].pc \notin
                                        {"drain", "drain_500_start", "drain_500_body"}
                                THEN [@[c] EXCEPT !.woken = TRUE]
                                ELSE @[c]]]
    ELSE w

\* _is_writable_event.set() resolves the wait of every task suspended in drain().
resume_writing(w) ==
    IF w.flow.write_paused
    THEN [w EXCEPT !.flow.write_paused = FALSE, !.flow.is_writable_event = TRUE,
                   !.tasks = [c \in DOMAIN @ |->
                                IF @[c].pc \in {"drain", "drain_500_start", "drain_500_body"}
                                THEN [@[c] EXCEPT !.woken = TRUE]
                                ELSE @[c]]]
    ELSE w

_unset_keepalive_if_required(w) ==
    IF w.proto.timeout_keep_alive_task # "none"
    THEN [w EXCEPT !.proto.timeout_keep_alive_task = "none"]
    ELSE w

\* RequestResponseCycle.__init__ for the request head h
NewCycleObject(w, h) ==
    [disconnected |-> FALSE, keep_alive |-> TRUE,
     waiting_for_100_continue |-> w.conn.waiting100,
     body |-> <<>>, more_body |-> TRUE,
     response_started |-> FALSE, response_complete |-> FALSE,
     message_event |-> FALSE, on_response |-> TRUE, scope |-> h]

\* A task created by loop.create_task(run_asgi(app)): the handler runs (pc =
\* "run"), waits in message_event.wait() ("recv") or in flow.drain() ("drain";
\* "drain_500_start", "drain_500_body" for the sends of send_500_response), or
\* run_asgi is over ("done"). woken: its drain() wait is resolved. delivered:
\* the body bytes receive() has returned to the handler; told: it has
\* returned http.disconnect. "cancel_app", "cancel_500": Task.cancel() was
\* called while the task was suspended in the handler or in send_500_response
\* and the CancelledError is thrown at its next step. result: how run_asgi
\* ended ("ok", "exception", "cancelled").
NewTask ==
    [pc |-> "run", woken |-> FALSE, delivered |-> <<>>, told |-> FALSE,
     result |-> "none"]

\* HTTP11Protocol.send_400_response
send_400_response(w) ==
    CloseUnlessRaised(
      SendAndWrite(
        SendAndWrite(
          SendAndWrite(w, H11Event("Response", TRUE, NoLength, 0),
                       Wrote(NoCycle, "start", 400, TRUE)),
          H11Event("Data", FALSE, NoLength, 0), Wrote(NoCycle, "data", 0, FALSE)),
        H11Event("EndOfMessage", FALSE, NoLength, 0), Wrote(NoCycle, "eom", 0, FALSE)))

\* The Request branch of handle_events from line 480 on: the cycle and its task
SpawnCycle(w, h) ==
    [w EXCEPT !.cycles = Append(@, NewCycleObject(w, h)),
              !.proto.cycle = Len(w.cycles) + 1,
              !.tasks = Append(@, NewTask),
              !.server_state.last_request_at = "recent",
              !.server_state.tasks = @ \cup {Len(w.cycles) + 1}]

\* HTTP11Protocol.handle_upgrade: __init__ never sets ws_protocol_class, so
\* reading it for an Upgrade: websocket request raises AttributeError.
handle_upgrade(w, h) ==
    IF h.upgrade # "websocket" THEN send_400_response(w) ELSE [w EXCEPT !.exc = TRUE]

\* The Request branch of handle_events
OnRequest(w, h) ==
    IF h.upgrade # "none" THEN [w |-> handle_upgrade(w, h), go |-> FALSE]
    ELSE [w |-> SpawnCycle(w, h), go |-> TRUE]

\* The Data branch of handle_events, after the check of our_state
AppendBody(w, cy, data) == [w EXCEPT !.cycles[cy].body = @ \o data]
PauseOverLimit(w, cy) ==
    IF Len(w.cycles[cy].body) * SegmentBytes > HIGH_WATER_LIMIT THEN pause_reading(w)
    ELSE w
\* The Data branch without line 503: the event is not set.
SetMessageEvent_Never(w, cy) == w
SetMessageEvent(w, cy) == [w EXCEPT !.cycles[cy].message_event = TRUE]

\* The Data branch of handle_events
OnData(w, data) ==
    IF w.conn.our_state = "DONE" THEN w
    ELSE SetMessageEvent(PauseOverLimit(AppendBody(w, w.proto.cycle, data),
                                        w.proto.cycle),
                         w.proto.cycle)

\* OnEndOfMessage without the check of our_state: the parser is restarted for
\* the next request whatever the state of the response.
OnEndOfMessage_Unchecked(w) ==
    [w EXCEPT !.transport.paused = FALSE, !.conn = StartNextCycle(@)]

\* The EndOfMessage branch of handle_events
OnEndOfMessage(w) ==
    IF w.conn.our_state = "DONE"
    THEN [w EXCEPT !.transport.paused = FALSE, !.conn = StartNextCycle(@)]
    ELSE [w EXCEPT !.cycles[w.proto.cycle].more_body = FALSE,
                   !.cycles[w.proto.cycle].message_event = TRUE]

\* One turn of the loop of handle_events: the state after it, and whether the
\* loop goes on (a break or a return ends it).
Turn(w, go) == [w |-> w, go |-> go]

Dispatch(w, ev, head, data) ==
    CASE ev = "ERROR" -> Turn(send_400_response(w), FALSE)
      [] ev = "NEED_DATA" -> Turn(w, FALSE)
      [] ev = "PAUSED" -> Turn(pause_reading(w), FALSE)
      [] ev = "Request" -> OnRequest(w, head)
      [] ev = "Data" -> Turn(OnData(w, data), TRUE)
      [] ev = "EndOfMessage" -> Turn(OnEndOfMessage(w), TRUE)

Dispatched(w, ne) == Dispatch([w EXCEPT !.conn = ne.conn], ne.ev, ne.head, ne.data)

handle_event(w) == Dispatched(w, NextEvent(w.conn))

\* HTTP11Protocol.handle_events: the loop over conn.next_event()
RECURSIVE handle_events(_)
handle_events(w) ==
    LET t == handle_event(w)
    IN IF t.go THEN handle_events(t.w) ELSE t.w

\* on_response_complete from line 568 on
NextRequest(w) ==
    IF w.conn.our_state = "DONE" /\ w.conn.their_state = "DONE"
    THEN handle_events([w EXCEPT !.conn = StartNextCycle(@)])
    ELSE w

Counted(w) == [w EXCEPT !.server_state.total_requests = @ + 1]
Armed(w) == [w EXCEPT !.proto.timeout_keep_alive_task = "armed"]

\* HTTP11Protocol.on_response_complete
on_response_complete(w) ==
    IF is_closing(w) THEN Counted(w)
    ELSE NextRequest(resume_reading(Armed(_unset_keepalive_if_required(Counted(w)))))

\* ------------------------------------------------------------------ cycle
\* How send() ended: "ok", "raised", "dropped" (line 226: the cycle is
\* disconnected) or "suspended" (in flow.drain()).
Ended(w, c, res) == [w EXCEPT !.exc = FALSE, !.ret = Ret("send", c, res, <<>>, FALSE)]
SendResult(w, c) == Ended(w, c, IF w.exc THEN "raised" ELSE "ok")

\* SendStart setting response_complete where the code sets response_started.
SendStart_WrongFlag(w, c, m) ==
    SendResult(
      SendAndWrite([w EXCEPT !.cycles[c].response_complete = TRUE,
                             !.cycles[c].waiting_for_100_continue = FALSE],
                   H11Event("Response", m.close \/ w.cycles[c].scope.close, m.cl, 0),
                   Wrote(c, "start", m.status,
                         m.close \/ w.cycles[c].scope.close \/ ~w.conn.keep_alive)),
      c)

\* send, lines 235-263
SendStart(w, c, m) ==
    SendResult(
      SendAndWrite([w EXCEPT !.cycles[c].response_started = TRUE,
                             !.cycles[c].waiting_for_100_continue = FALSE],
                   H11Event("Response", m.close \/ w.cycles[c].scope.close, m.cl, 0),
                   Wrote(c, "start", m.status,
                         m.close \/ w.cycles[c].scope.close \/ ~w.conn.keep_alive)),
      c)

\* CloseIfRequired that never closes: send without lines 297-300.
CloseIfRequired_Never(w, c) == w

\* send, lines 297-300
CloseIfRequired(w, c) ==
    IF w.conn.our_state = "MUST_CLOSE" \/ ~w.cycles[c].keep_alive
    THEN CloseUnlessRaised(conn_send(w, H11Event("ConnectionClosed", FALSE, NoLength, 0)))
    ELSE w

\* send, line 301
OnResponse(w, c) ==
    IF w.exc \/ ~w.cycles[c].on_response THEN w ELSE on_response_complete(w)

\* send, lines 296-301: after the response is complete
SendComplete(w, c) ==
    IF w.exc THEN SendResult(w, c)
    ELSE SendResult(OnResponse(CloseIfRequired(w, c), c), c)

\* send, lines 285-289
SendEndOfMessage(w, c) ==
    SendComplete(
      SendAndWrite([w EXCEPT !.cycles[c].response_complete = TRUE,
                             !.cycles[c].message_event = TRUE],
                   H11Event("EndOfMessage", FALSE, NoLength, 0),
                   Wrote(c, "eom", 0, FALSE)),
      c)

AfterData(w, c, m) ==
    IF w.exc \/ m.more THEN SendResult(w, c) ELSE SendEndOfMessage(w, c)

\* send, lines 270-289
SendBody(w, c, m) ==
    AfterData(SendAndWrite(w, H11Event("Data", FALSE, NoLength, m.n),
                           Wrote(c, "data", m.n, FALSE)),
              c, m)

\* send without the error for an event after the response is complete: the
\* event is taken for one more body event.
send_AfterComplete(w, c, m) ==
    IF w.cycles[c].disconnected THEN Ended(w, c, "dropped")
    ELSE IF ~w.cycles[c].response_started
    THEN IF m.type # "http.response.start" THEN Ended(w, c, "raised")
         ELSE SendStart(w, c, m)
    ELSE IF m.type # "http.response.body" THEN Ended(w, c, "raised")
    ELSE SendBody(w, c, m)

\* send without the check of the event type after the start (lines 267-269).
send_AnyBody(w, c, m) ==
    IF w.cycles[c].disconnected THEN Ended(w, c, "dropped")
    ELSE IF ~w.cycles[c].response_started
    THEN IF m.type # "http.response.start" THEN Ended(w, c, "raised")
         ELSE SendStart(w, c, m)
    ELSE IF ~w.cycles[c].response_complete THEN SendBody(w, c, m)
    ELSE Ended(w, c, "raised")

\* send without the check of disconnected (lines 225-226).
send_Connected(w, c, m) ==
    IF ~w.cycles[c].response_started
    THEN IF m.type # "http.response.start" THEN Ended(w, c, "raised")
         ELSE SendStart(w, c, m)
    ELSE IF ~w.cycles[c].response_complete
    THEN IF m.type # "http.response.body" THEN Ended(w, c, "raised")
         ELSE SendBody(w, c, m)
    ELSE Ended(w, c, "raised")

\* RequestResponseCycle.send from line 225 on (after the drain)
send(w, c, m) ==
    IF w.cycles[c].disconnected THEN Ended(w, c, "dropped")
    ELSE IF ~w.cycles[c].response_started
    THEN IF m.type # "http.response.start" THEN Ended(w, c, "raised")
         ELSE SendStart(w, c, m)
    ELSE IF ~w.cycles[c].response_complete
    THEN IF m.type # "http.response.body" THEN Ended(w, c, "raised")
         ELSE SendBody(w, c, m)
    ELSE Ended(w, c, "raised")

\* RequestResponseCycle.send from its first line: with writes paused the task
\* suspends in flow.drain(), at the position at.
SendCall(w, c, m, at) ==
    IF w.flow.write_paused /\ ~w.cycles[c].disconnected
    THEN [w EXCEPT !.tasks[c].pc = at, !.tasks[c].woken = FALSE,
                   !.ret = Ret("send", c, "suspended", <<>>, FALSE)]
    ELSE send(w, c, m)

\* The task of cycle c goes on after drain().
Resumed(w, c) == [w EXCEPT !.tasks[c].pc = "run", !.tasks[c].woken = FALSE]

\* send_500_response, line 216, unless the first send is suspended or raised
Send500Body(w, c) ==
    IF w.tasks[c].pc = "drain_500_start" \/ w.ret.res = "raised" THEN w
    ELSE SendCall(w, c, Body500, "drain_500_body")

\* The transport calls pause_writing from inside the write() that fills its
\* buffer (full), here the write of the start of the canned 500.
BufferFull(w, full) ==
    IF full /\ w.ret.res = "ok" THEN pause_writing(w) ELSE w

\* RequestResponseCycle.send_500_response
send_500_response(w, c, full) ==
    Send500Body(BufferFull(SendCall(w, c, Start500, "drain_500_start"), full), c)

\* The finally clause of run_asgi; the finished task leaves the weak set. Its
\* result is an exception when the send of the canned 500 raised: nothing in
\* run_asgi catches it.
Finally(w, c) ==
    [w EXCEPT !.cycles[c].on_response = FALSE,
              !.tasks[c].pc = "done",
              !.tasks[c].woken = FALSE,
              !.tasks[c].result =
                 IF w.ret.op = "send" /\ w.ret.res = "raised" THEN "exception" ELSE "ok",
              !.server_state.tasks = @ \ {c}]

\* run_asgi ends unless send_500_response is suspended.
RunAsgiEnd(w, c) ==
    IF w.tasks[c].pc \in {"drain_500_start", "drain_500_body"} THEN w
    ELSE Finally(w, c)

\* run_asgi after the handler raised.
AppRaised(w, c, full) ==
    IF ~w.cycles[c].response_started THEN RunAsgiEnd(send_500_response(w, c, full), c)
    ELSE Finally(Close(w), c)

\* run_asgi after the handler returned; none: it returned None.
AppReturned(w, c, none, full) ==
    IF ~none THEN Finally(Close(w), c)
    ELSE IF ~w.cycles[c].response_started /\ ~w.cycles[c].disconnected
    THEN RunAsgiEnd(send_500_response(w, c, full), c)
    ELSE IF ~w.cycles[c].response_complete /\ ~w.cycles[c].disconnected
    THEN Finally(Close(w), c)
    ELSE Finally(w, c)

\* ReceiveReturn without line 326: the buffer keeps the body it returned.
ReceiveReturn_KeepBody(w, c) ==
    IF w.cycles[c].disconnected \/ w.cycles[c].response_complete
    THEN [w EXCEPT !.tasks[c].pc = "run", !.tasks[c].told = TRUE,
                   !.ret = Ret("receive", c, "http.disconnect", <<>>, FALSE)]
    ELSE [w EXCEPT !.tasks[c].pc = "run",
                   !.ret = Ret("receive", c, "http.request",
                               w.cycles[c].body, w.cycles[c].more_body),
                   !.tasks[c].delivered = @ \o w.cycles[c].body]

\* RequestResponseCycle.receive, lines 317-328: the message it returns.
ReceiveReturn(w, c) ==
    IF w.cycles[c].disconnected \/ w.cycles[c].response_complete
    THEN [w EXCEPT !.tasks[c].pc = "run", !.tasks[c].told = TRUE,
                   !.ret = Ret("receive", c, "http.disconnect", <<>>, FALSE)]
    ELSE [w EXCEPT !.tasks[c].pc = "run",
                   !.ret = Ret("receive", c, "http.request",
                               w.cycles[c].body, w.cycles[c].more_body),
                   !.tasks[c].delivered = @ \o w.cycles[c].body,
                   !.cycles[c].body = <<>>]

\* receive, lines 312-315
WaitMessage(w, c) ==
    IF w.cycles[c].message_event
    THEN ReceiveReturn([w EXCEPT !.cycles[c].message_event = FALSE], c)
    ELSE [w EXCEPT !.tasks[c].pc = "recv",
                   !.ret = Ret("receive", c, "suspended", <<>>, FALSE)]

\* Cleared100 without line 310: the flag stays set after the 100 Continue.
Cleared100_Never(w, c) == w

\* receive, lines 304-310
Cleared100(w, c) ==
    IF w.exc THEN w ELSE [w EXCEPT !.cycles[c].waiting_for_100_continue = FALSE]

Send100(w, c) ==
    IF w.cycles[c].waiting_for_100_continue /\ ~is_closing(w)
    THEN Cleared100(SendAndWrite(w, H11Event("InformationalResponse", FALSE, NoLength, 0),
                                 Wrote(c, "100", 100, FALSE)),
                    c)
    ELSE w

AfterSend100(w, c) ==
    IF w.exc
    THEN [w EXCEPT !.exc = FALSE, !.ret = Ret("receive", c, "raised", <<>>, FALSE)]
    ELSE IF ~w.cycles[c].disconnected /\ ~w.cycles[c].response_complete
    THEN WaitMessage(resume_reading(w), c)
    ELSE ReceiveReturn(w, c)

\* RequestResponseCycle.receive up to the point where it returns or suspends
\* in message_event.wait().
receive(w, c) == AfterSend100(Send100(w, c), c)

\* connection_lost, lines 384-385
Disconnect(w) ==
    IF w.proto.cycle # NoCycle /\ ~w.cycles[w.proto.cycle].response_complete
    THEN [w EXCEPT !.cycles[w.proto.cycle].disconnected = TRUE]
    ELSE w

\* connection_lost, lines 387-393: the LocalProtocolError is swallowed
SendClosed(w) ==
    IF w.conn.our_state # "ERROR"
    THEN [w EXCEPT !.conn = ConnSend(@, H11Event("ConnectionClosed", FALSE, NoLength, 0)).conn]
    ELSE w

\* connection_lost without lines 395-396: message_event is not set.
WakeReceiver_Never(w) == w

\* connection_lost, lines 395-396
WakeReceiver(w) ==
    IF w.proto.cycle # NoCycle
    THEN [w EXCEPT !.cycles[w.proto.cycle].message_event = TRUE]
    ELSE w

\* HTTP11Protocol.connection_lost
connection_lost(w) ==
    Close(resume_writing(WakeReceiver(SendClosed(Disconnect(
      [w EXCEPT !.server_state.connections = @ \ {ThisConn}, !.transport.lost = TRUE])))))

\* An exception escaping a callback of the transport makes the transport
\* close itself (the event loop's fatal-error path).
Escaped(w) == IF w.exc THEN [Close(w) EXCEPT !.exc = FALSE] ELSE w

\* HTTP11Protocol.data_received
data_received(w, tok) ==
    Escaped(handle_events([_unset_keepalive_if_required(w)
                             EXCEPT !.conn.rbuf = Append(@, tok)]))

\* timeout_keep_alive_handler, lines 610-611: a LocalProtocolError of
\* conn.send escapes the timer callback before the close.
CloseOnTimeout(w) ==
    [CloseUnlessRaised(conn_send(w, H11Event("ConnectionClosed", FALSE, NoLength, 0)))
       EXCEPT !.exc = FALSE]

\* HTTP11Protocol.timeout_keep_alive_handler, run by the armed timer
timeout_keep_alive_handler(w) ==
    IF is_closing(w) THEN [w EXCEPT !.proto.timeout_keep_alive_task = "fired"]
    ELSE CloseOnTimeout([w EXCEPT !.proto.timeout_keep_alive_task = "fired"])


\* ----------------------------------------------------------------- server
\* HTTP11Protocol.shutdown, called by the server on a live connection; a
\* LocalProtocolError of conn.send propagates to the caller.
HTTP11Protocol_shutdown(w) ==
    IF w.proto.cycle = NoCycle \/ w.cycles[w.proto.cycle].response_complete
    THEN CloseUnlessRaised(conn_send(w, H11Event("ConnectionClosed", FALSE, NoLength, 0)))
    ELSE [w EXCEPT !.cycles[w.proto.cycle].keep_alive = FALSE]

\* The same method on the second connection (its parser is never in ERROR).
other_shutdown(w) ==
    IF w.other.task \in {"none", "done"}
    THEN [w EXCEPT !.other.conn = "closing"]
    ELSE [w EXCEPT !.other.keep_alive = FALSE]

\* The tasks of the second connection are numbered after those of the first.
OtherTask(k) == MaxReqs + k

\* Task.cancel(): a finished task is left alone; a suspended one gets the
\* CancelledError at its next step.
cancel(t) ==
    IF t.pc \in {"run", "recv", "drain"} THEN [t EXCEPT !.pc = "cancel_app"]
    ELSE IF t.pc \in {"drain_500_start", "drain_500_body"} THEN [t EXCEPT !.pc = "cancel_500"]
    ELSE t

\* TCPServer._cleanup, lines 92-93
CancelAll(w) ==
    [w EXCEPT !.tasks = [c \in DOMAIN @ |-> cancel(@[c])],
              !.other.task = IF @ = "run" THEN "cancel" ELSE @]

\* connection.shutdown() on one connection of list(self._state.connections)
ShutdownOne(w, k) ==
    IF w.exc \/ k \notin w.server_state.connections THEN w
    ELSE IF k = ThisConn
    THEN [HTTP11Protocol_shutdown(w) EXCEPT !.server.told = @ \cup {k}]
    ELSE [other_shutdown(w) EXCEPT !.server.told = @ \cup {k}]

\* An exception that leaves shutdown() ends serve() with it.
Failed(w) == [w EXCEPT !.exc = FALSE, !.server.pc = "failed", !.server.awaited = {}]

SleepUnlessRaised(w) ==
    IF w.exc THEN Failed(w) ELSE [w EXCEPT !.server.pc = "sleep", !.server.awaited = {}]

\* TCPServer._cleanup, lines 97-103: the server object of the loop closes its
\* listening sockets, wait_closed() returns at once for a closed server, and
\* the connections are told to shut down, first the one the set yields first.
CloseAll(w, first) ==
    SleepUnlessRaised(
      ShutdownOne(ShutdownOne([w EXCEPT !.server.listener = "closed"], first),
                  ThisConn + OtherConn - first))

\* await asyncio.gather(*self._state.tasks): with no task the result is there
\* at once, otherwise the coroutine is suspended at the position at.
Gathering(w, at) == [w EXCEPT !.server.pc = at, !.server.awaited = w.server_state.tasks]

\* TCPServer._cleanup
_cleanup(w, first) ==
    IF CancelAll(w).server_state.tasks = {} THEN CloseAll(CancelAll(w), first)
    ELSE Gathering(CancelAll(w), "cleanup_gather")

\* TCPServer.shutdown, lines 84-88
AwaitTasks(w, first) ==
    IF ~w.server.forceful /\ w.server_state.tasks # {} THEN Gathering(w, "gather")
    ELSE _cleanup(w, first)

\* TCPServer.shutdown: the loop of lines 80-82 goes on while a request was
\* parsed less than shutdown_threshold_sec ago and forceful is not latched.
TCPServer_shutdown(w, first) ==
    IF w.server_state.last_request_at = "recent" /\ ~w.server.forceful
    THEN [w EXCEPT !.server.pc = "quiescence"]
    ELSE AwaitTasks(w, first)

\* The awaited tasks that are over, and those that ended with an exception
\* or cancelled: gather() hands the first such result to its caller at once.
IsOver(w, id) ==
    IF id <= MaxReqs THEN w.tasks[id].pc = "done"
    ELSE id < OtherTask(w.other.nreq) \/ w.other.task \in {"none", "done"}
GatherRaises(w) ==
    \E id \in w.server.awaited :
      id <= MaxReqs /\ w.tasks[id].pc = "done" /\ w.tasks[id].result # "ok"
GatherOver(w) == \A id \in w.server.awaited : IsOver(w, id)

\* Line 105 tests the bound method is_set, not its result: the method object
\* counts as true.
IsSetMethod == TRUE

\* TCPServer._cleanup, lines 105-107, after the sleep of line 103
AfterSleep(w) ==
    IF w.server.pc = "sleep"
    THEN IF w.server_state.connections # {} /\ ~IsSetMethod
         THEN [w EXCEPT !.server.pc = "wait_connections"]
         ELSE [w EXCEPT !.server.pc = "done"]
    ELSE IF w.server_state.connections # {} /\ ~w.server.forceful THEN w
    ELSE [w EXCEPT !.server.pc = "done"]

\* TCPServer.on_shutdown_signal
on_shutdown_signal(w, graceful_shutdown) ==
    IF graceful_shutdown THEN [w EXCEPT !.server.graceful = TRUE]
    ELSE [w EXCEPT !.server.forceful = TRUE]

\* run_asgi with the CancelledError thrown into it: in the handler it is
\* caught by except BaseException; in send_500_response it is in the except
\* or else branch already and leaves run_asgi through finally.
Cancelled(w, c, full) ==
    IF w.tasks[c].pc = "cancel_app" THEN AppRaised(Resumed(w, c), c, full)
    ELSE [Finally(w, c) EXCEPT !.tasks[c].result = "cancelled"]

\* ---------------------------------------------------------------- actions
Init ==
    /\ conn = [our_state |-> "IDLE", their_state |-> "IDLE", keep_alive |-> TRUE,
               rbuf |-> <<>>, rem |-> 0, wlen |-> NoLength, waiting100 |-> FALSE]
    /\ proto = [cycle |-> NoCycle, timeout_keep_alive_task |-> "none"]
    /\ cycles = <<>>
    /\ tasks = <<>>
    /\ flow = [read_paused |-> FALSE, write_paused |-> FALSE, is_writable_event |-> TRUE]
    /\ transport = [made |-> FALSE, closing |-> FALSE, lost |-> FALSE,
                    paused |-> FALSE, written |-> <<>>]
    /\ server_state = [total_requests |-> 0, last_request_at |-> "long_ago",
                       connections |-> {}, tasks |-> {}]
    /\ client = [nreq |-> 0, rem |-> 0, len |-> 0]
    /\ ret = NoRet
    /\ server = [pc |-> "main_loop", graceful |-> FALSE, forceful |-> FALSE,
                 listener |-> "open", awaited |-> {}, told |-> {}]
    /\ other = [conn |-> "none", task |-> "none", keep_alive |-> TRUE, nreq |-> 0]

Cycles == DOMAIN cycles

\* The transport still delivers callbacks to the protocol.
Connected == transport.made /\ ~transport.lost

\* connection_made
ConnectionMade ==
    /\ ~transport.made
    /\ server.listener = "open"
    /\ transport' = [transport EXCEPT !.made = TRUE]
    /\ server_state' = [server_state EXCEPT !.connections = @ \cup {ThisConn}]
    /\ ret' = NoRet
    /\ UNCHANGED <<conn, proto, cycles, tasks, flow, client, server, other>>

\* The next unit the client can put on the wire: the next byte of the body it
\* is sending, or the head of its next request (at most reqs requests, bodies
\* of at most len bytes, Expect: 100-continue as in expects).
ClientTokens(reqs, len, expects) ==
    IF client.rem > 0
    THEN {ByteToken(client.nreq, client.len - client.rem + 1)}
    ELSE IF client.nreq < reqs
    THEN {HeadToken(client.nreq + 1, cl, n, e) :
            cl \in BOOLEAN, n \in 0..len, e \in expects}
    ELSE {}

\* The transport delivers the next unit of the client to data_received.
Deliver(tokens) ==
    /\ Connected /\ ~transport.closing /\ ~transport.paused
    /\ \E tok \in tokens :
         /\ client' = IF tok.t = "head"
                      THEN [nreq |-> tok.r, rem |-> tok.len, len |-> tok.len]
                      ELSE [client EXCEPT !.rem = @ - 1]
         /\ Commit(data_received(World, tok))

\* Pipelined requests with short bodies
DataReceived == Deliver(ClientTokens(MaxReqs, MaxBody, {FALSE}))

\* One request with a longer body, with or without Expect: 100-continue
DataReceivedBody == Deliver(ClientTokens(MaxReqsBody, MaxLongBody, BOOLEAN))

ConnectionLost ==
    /\ Connected
    /\ Commit(connection_lost(World))
    /\ UNCHANGED client

\* The transport calls pause_writing from inside a write() that fills its buffer.
PauseWriting ==
    /\ Connected /\ ~flow.write_paused /\ ret.wrote
    /\ Commit(pause_writing(World))
    /\ UNCHANGED client

ResumeWriting ==
    /\ Connected /\ flow.write_paused
    /\ Commit(resume_writing(World))
    /\ UNCHANGED client

TimeoutKeepAlive ==
    /\ proto.timeout_keep_alive_task = "armed"
    /\ Commit(timeout_keep_alive_handler(World))
    /\ UNCHANGED client

\* The http.response.body events cycle c has written so far.
NumData(c) ==
    Cardinality({i \in DOMAIN transport.written :
                   transport.written[i].c = c /\ transport.written[i].k = "data"})

\* The events the handler of cycle c may pass to send().
Sendable(c) ==
    {m \in AppMsgs : (m.type = "http.response.body" /\ m.more) => NumData(c) < MaxChunks}

\* The handler calls send(m).
HandlerSend(c, m) ==
    /\ tasks[c].pc = "run"
    /\ m \in Sendable(c)
    /\ Commit(SendCall(World, c, m, "drain"))
    /\ UNCHANGED client

\* A handler suspended in flow.drain() goes on after resume_writing. Nothing
\* reads the handler's message before this point, and the handler is
\* arbitrary: the message of a suspended send is chosen here.
DrainResume(c, m) ==
    /\ tasks[c].pc = "drain" /\ tasks[c].woken
    /\ m \in Sendable(c)
    /\ Commit(send(Resumed(World, c), c, m))
    /\ UNCHANGED client

\* send_500_response goes on after resume_writing, with its first send.
Drain500Start(c, full) ==
    /\ tasks[c].pc = "drain_500_start" /\ tasks[c].woken
    /\ Commit(RunAsgiEnd(Send500Body(BufferFull(send(Resumed(World, c), c, Start500),
                                                full), c), c))
    /\ UNCHANGED client

\* send_500_response goes on after resume_writing, with its second send.
Drain500Body(c) ==
    /\ tasks[c].pc = "drain_500_body" /\ tasks[c].woken
    /\ Commit(RunAsgiEnd(send(Resumed(World, c), c, Body500), c))
    /\ UNCHANGED client

\* The handler calls receive().
HandlerReceive(c) ==
    /\ tasks[c].pc = "run"
    /\ Commit(receive(World, c))
    /\ UNCHANGED client

\* A handler suspended in message_event.wait() goes on once the event is set.
ReceiveResume(c) ==
    /\ tasks[c].pc = "recv" /\ cycles[c].message_event
    /\ Commit(ReceiveReturn([World EXCEPT !.cycles[c].message_event = FALSE], c))
    /\ UNCHANGED client

\* The handler returns (None or something else).
HandlerReturn(c, none, full) ==
    /\ tasks[c].pc = "run"
    /\ Commit(AppReturned(World, c, none, full))
    /\ UNCHANGED client

\* The handler raises.
HandlerRaise(c, full) ==
    /\ tasks[c].pc = "run"
    /\ Commit(AppRaised(World, c, full))
    /\ UNCHANGED client

Next ==
    \/ ConnectionMade
    \/ DataReceived
    \/ ConnectionLost
    \/ PauseWriting
    \/ ResumeWriting
    \/ TimeoutKeepAlive
    \/ \E c \in Cycles : \E m \in AppMsgs : HandlerSend(c, m)
    \/ \E c \in Cycles : \E m \in AppMsgs : DrainResume(c, m)
    \/ \E c \in Cycles : \E full \in BOOLEAN : Drain500Start(c, full)
    \/ \E c \in Cycles : Drain500Body(c)
    \/ \E c \in Cycles : HandlerReceive(c)
    \/ \E c \in Cycles : ReceiveResume(c)
    \/ \E c \in Cycles : \E none \in BOOLEAN : \E full \in BOOLEAN : HandlerReturn(c, none, full)
    \/ \E c \in Cycles : \E full \in BOOLEAN : HandlerRaise(c, full)

Spec == Init /\ [][Next]_vars

\* The same program with a client that sends one request with a longer body.
NextBody ==
    \/ ConnectionMade
    \/ DataReceivedBody
    \/ ConnectionLost
    \/ PauseWriting
    \/ ResumeWriting
    \/ TimeoutKeepAlive
    \/ \E c \in Cycles : \E m \in AppMsgs : HandlerSend(c, m)
    \/ \E c \in Cycles : \E m \in AppMsgs : DrainResume(c, m)
    \/ \E c \in Cycles : \E full \in BOOLEAN : Drain500Start(c, full)
    \/ \E c \in Cycles : Drain500Body(c)
    \/ \E c \in Cycles : HandlerReceive(c)
    \/ \E c \in Cycles : ReceiveResume(c)
    \/ \E c \in Cycles : \E none \in BOOLEAN : \E full \in BOOLEAN : HandlerReturn(c, none, full)
    \/ \E c \in Cycles : \E full \in BOOLEAN : HandlerRaise(c, full)

SpecBody == Init /\ [][NextBody]_vars

\* The event loop runs a task whose wait is resolved: a handler suspended in
\* message_event.wait() goes on once the event is set.
SpecBodyFair == SpecBody /\ WF_vars(\E c \in Cycles : ReceiveResume(c))

\* ---------------------------------------------------------------- shutdown
\* The server with its coordinator (TCPServer.serve), the cancellation of
\* cycle tasks and a second connection.

\* One request without a body, with or without Expect: 100-continue
DataReceivedShutdown == Deliver(ClientTokens(MaxReqsShutdown, 0, BOOLEAN))

\* A signal handler installed by setup_signal_handlers runs.
ShutdownSignal(graceful_shutdown) ==
    /\ server.pc \notin {"done", "failed"}
    /\ IF graceful_shutdown THEN ~server.graceful ELSE ~server.forceful
    /\ Commit(on_shutdown_signal(World, graceful_shutdown))
    /\ UNCHANGED client

\* serve(): _main_loop sees a latch set and shutdown() starts.
MainLoopEnds(first) ==
    /\ server.pc = "main_loop"
    /\ server.graceful \/ server.forceful
    /\ Commit(TCPServer_shutdown(World, first))
    /\ UNCHANGED client

\* shutdown_threshold_sec go by without a request being parsed.
TimePasses ==
    /\ server.pc = "quiescence"
    /\ server_state.last_request_at = "recent"
    /\ Commit([World EXCEPT !.server_state.last_request_at = "long_ago"])
    /\ UNCHANGED client

\* shutdown() wakes from the sleep of line 82 and the loop ends.
QuiescenceEnds(first) ==
    /\ server.pc = "quiescence"
    /\ server_state.last_request_at = "long_ago" \/ server.forceful
    /\ Commit(AwaitTasks(World, first))
    /\ UNCHANGED client

\* The gather() of line 86 hands over its result.
GatherEnds(first) ==
    /\ server.pc = "gather"
    /\ GatherRaises(World) \/ GatherOver(World)
    /\ Commit(IF GatherRaises(World) THEN Failed(World) ELSE _cleanup(World, first))
    /\ UNCHANGED client

\* The gather() of line 95 hands over its result.
CleanupGatherEnds(first) ==
    /\ server.pc = "cleanup_gather"
    /\ GatherRaises(World) \/ GatherOver(World)
    /\ Commit(IF GatherRaises(World) THEN Failed(World) ELSE CloseAll(World, first))
    /\ UNCHANGED client

\* _cleanup wakes from the sleep of line 103 (or of line 107).
CleanupSleepEnds ==
    /\ server.pc \in {"sleep", "wait_connections"}
    /\ AfterSleep(World) # World
    /\ Commit(AfterSleep(World))
    /\ UNCHANGED client

\* A cancelled task runs its next step.
TaskCancelled(c, full) ==
    /\ tasks[c].pc \in {"cancel_app", "cancel_500"}
    /\ Commit(Cancelled(World, c, full))
    /\ UNCHANGED client

\* connection_made of the second connection
OtherConnectionMade ==
    /\ server.listener = "open"
    /\ other.conn = "none"
    /\ Commit([World EXCEPT !.other.conn = "open",
                            !.server_state.connections = @ \cup {OtherConn}])
    /\ UNCHANGED client

\* handle_events of the second connection parses a request and spawns its cycle.
OtherRequest ==
    /\ other.conn = "open"
    /\ other.task \in {"none", "done"}
    /\ other.nreq < MaxOtherReqs
    /\ Commit([World EXCEPT !.other.task = "run",
                            !.other.nreq = @ + 1,
                            !.server_state.last_request_at = "recent",
                            !.server_state.tasks = @ \cup {OtherTask(other.nreq + 1)}])
    /\ UNCHANGED client

\* The handler of the second connection sends its whole response and returns;
\* send closes the transport if shutdown() has cleared keep_alive.
OtherResponds ==
    /\ other.task = "run"
    /\ Commit([World EXCEPT !.other.task = "done",
                            !.other.conn = IF @ = "open" /\ ~other.keep_alive
                                           THEN "closing" ELSE @,
                            !.server_state.tasks = @ \ {OtherTask(other.nreq)}])
    /\ UNCHANGED client

\* The cancelled task of the second connection runs: run_asgi sends the 500
\* with Connection: close or closes the transport.
OtherCancelled ==
    /\ other.task = "cancel"
    /\ Commit([World EXCEPT !.other.task = "done",
                            !.other.conn = IF @ = "open" THEN "closing" ELSE @,
                            !.server_state.tasks = @ \ {OtherTask(other.nreq)}])
    /\ UNCHANGED client

\* connection_lost of the second connection
OtherConnectionLost ==
    /\ other.conn \in {"open", "closing"}
    /\ Commit([World EXCEPT !.other.conn = "lost",
                            !.server_state.connections = @ \ {OtherConn}])
    /\ UNCHANGED client

NextShutdown ==
    \/ ConnectionMade
    \/ DataReceivedShutdown
    \/ ConnectionLost
    \/ PauseWriting
    \/ ResumeWriting
    \/ TimeoutKeepAlive
    \/ \E c \in Cycles : \E m \in AppMsgs : HandlerSend(c, m)
    \/ \E c \in Cycles : \E m \in AppMsgs : DrainResume(c, m)
    \/ \E c \in Cycles : \E full \in BOOLEAN : Drain500Start(c, full)
    \/ \E c \in Cycles : Drain500Body(c)
    \/ \E c \in Cycles : HandlerReceive(c)
    \/ \E c \in Cycles : ReceiveResume(c)
    \/ \E c \in Cycles : \E none \in BOOLEAN : \E full \in BOOLEAN : HandlerReturn(c, none, full)
    \/ \E c \in Cycles : \E full \in BOOLEAN : HandlerRaise(c, full)
    \/ \E g \in BOOLEAN : ShutdownSignal(g)
    \/ \E first \in {ThisConn, OtherConn} : MainLoopEnds(first)
    \/ TimePasses
    \/ \E first \in {ThisConn, OtherConn} : QuiescenceEnds(first)
    \/ \E first \in {ThisConn, OtherConn} : GatherEnds(first)
    \/ \E first \in {ThisConn, OtherConn} : CleanupGatherEnds(first)
    \/ CleanupSleepEnds
    \/ \E c \in Cycles : \E full \in BOOLEAN : TaskCancelled(c, full)
    \/ OtherConnectionMade
    \/ OtherRequest
    \/ OtherResponds
    \/ OtherCancelled
    \/ OtherConnectionLost

SpecShutdown == Init /\ [][NextShutdown]_vars

\* ----------------------------------------------------------------- upgrade
\* A client that asks for a protocol upgrade, at once or after other
\* requests, and then waits for the answer of the server.
UpgradeTokens ==
    IF client.rem = 0 /\ client.nreq <= MaxReqsUpgrade
    THEN {UpgradeToken(MaxReqsUpgrade + 1, v) : v \in UpgradeValues}
    ELSE {}

DataReceivedUpgrade ==
    Deliver(ClientTokens(MaxReqsUpgrade, 0, {FALSE}) \cup UpgradeTokens)

NextUpgrade ==
    \/ ConnectionMade
    \/ DataReceivedUpgrade
    \/ ConnectionLost
    \/ PauseWriting
    \/ ResumeWriting
    \/ TimeoutKeepAlive
    \/ \E c \in Cycles : \E m \in AppMsgs : HandlerSend(c, m)
    \/ \E c \in Cycles : \E m \in AppMsgs : DrainResume(c, m)
    \/ \E c \in Cycles : \E full \in BOOLEAN : Drain500Start(c, full)
    \/ \E c \in Cycles : Drain500Body(c)
    \/ \E c \in Cycles : HandlerReceive(c)
    \/ \E c \in Cycles : ReceiveResume(c)
    \/ \E c \in Cycles : \E none \in BOOLEAN : \E full \in BOOLEAN : HandlerReturn(c, none, full)
    \/ \E c \in Cycles : \E full \in BOOLEAN : HandlerRaise(c, full)

SpecUpgrade == Init /\ [][NextUpgrade]_vars

\* ----------------------------------------------------------------- claims
\* What cycle c has written to the transport, as positions of the log.
WrittenBy(c) == {i \in DOMAIN transport.written : transport.written[i].c = c}
EomWritten(c) == \E i \in WrittenBy(c) : transport.written[i].k = "eom"

\* C1: at most one request/response cycle is in progress at any instant: every
\* cycle but the newest one has response_complete = true, so handle_events has
\* created a cycle only with no earlier cycle or a completed one, and the
\* protocol's current cycle is the newest one.
C1_OneCycleAtATime ==
    /\ \A c \in Cycles : c < Len(cycles) => cycles[c].response_complete
    /\ proto.cycle = Len(cycles)

\* C1 witness: the send of cycle 1 that completed its response has started
\* cycle 2 from the pipelined request that was waiting in the buffer.
C1_Witness ==
    /\ ret.op = "send" /\ ret.c = 1 /\ ret.res = "ok"
    /\ Len(cycles) = 2
    /\ cycles[1].response_complete /\ ~cycles[2].response_started
    /\ tasks[1].pc = "run" /\ tasks[2].pc = "run"

\* C2: the responses of pipelined requests go to the transport in request
\* order: nothing of a cycle is written after anything of a later cycle, and
\* a cycle writes only after the end of message of every earlier cycle.
C2_ResponsesInOrder ==
    \A j \in DOMAIN transport.written :
      transport.written[j].c # NoCycle =>
        /\ \A i \in 1..(j - 1) : transport.written[i].c <= transport.written[j].c
        /\ \A c \in 1..(transport.written[j].c - 1) :
             \E i \in 1..(j - 1) :
               transport.written[i].c = c /\ transport.written[i].k = "eom"

\* C2 witness: both pipelined requests have response bytes on the transport,
\* and the handler of the first is still running while the second wrote.
C2_Witness ==
    /\ Len(cycles) = 2
    /\ WrittenBy(1) # {} /\ WrittenBy(2) # {}
    /\ tasks[1].pc = "run"

\* C3: response_complete implies response_started in every cycle, and neither
\* flag ever goes back to false.
C3_FlagsMonotonic ==
    [][/\ \A c \in DOMAIN cycles' :
            cycles'[c].response_complete => cycles'[c].response_started
       /\ \A c \in DOMAIN cycles :
            /\ c \in DOMAIN cycles'
            /\ cycles[c].response_started => cycles'[c].response_started
            /\ cycles[c].response_complete => cycles'[c].response_complete]_vars

\* C3 witness: a cycle with a complete response, after a later step.
C3_Witness ==
    \E c \in Cycles :
      /\ cycles[c].response_started /\ cycles[c].response_complete
      /\ tasks[c].pc = "done"

\* The request of cycle c carried Connection: close, or its response went out
\* with it; and the end of message of the response is written.
CarriesClose(c) ==
    \/ cycles[c].scope.close
    \/ \E i \in WrittenBy(c) :
         transport.written[i].k = "start" /\ transport.written[i].close
CloseCompleted(c) == CarriesClose(c) /\ EomWritten(c)

\* C4: once the response of a cycle with Connection: close (on the request or
\* on the response, the canned 500 included) is complete, the transport is
\* closed, the cycle stays the last one of the connection even with a
\* pipelined request buffered, and no step arms the keep-alive timer.
C4_CloseAfterResponse ==
    [][\A c \in DOMAIN cycles' :
         CloseCompleted(c)' =>
           /\ transport'.closing \/ transport'.lost
           /\ Len(cycles') = c
           /\ proto'.timeout_keep_alive_task = "armed"
                => proto.timeout_keep_alive_task = "armed"]_vars

\* C4 witness: a response with Connection: close to a request without it is
\* complete while a pipelined request waits in the parser's buffer.
C4_Witness ==
    /\ Len(cycles) = 1
    /\ ~cycles[1].scope.close /\ CloseCompleted(1)
    /\ conn.rbuf # <<>>
    /\ transport.closing

\* C5 (as stated): total_requests is the number of cycles whose
\* response_complete has become true.
C5_TotalRequests ==
    server_state.total_requests
      = Cardinality({c \in Cycles : cycles[c].response_complete})

\* The event m is out of order for cycle c: not a start first, not a body
\* after the start, or anything after the response is complete.
OutOfOrder(c, m) ==
    IF ~cycles[c].response_started THEN m.type # "http.response.start"
    ELSE IF ~cycles[c].response_complete THEN m.type # "http.response.body"
    ELSE TRUE

\* The handler of cycle c is where a send() runs from line 225 on: it calls
\* send with writes not paused, or it comes back from drain.
SendRuns(c) ==
    \/ tasks[c].pc = "run" /\ ~flow.write_paused
    \/ tasks[c].pc = "drain" /\ tasks[c].woken

\* C6: with the cycle not disconnected, a send() of an out-of-order event
\* raises to the handler, writes nothing to the transport and leaves
\* response_started and response_complete as they were; this holds for every
\* event in every state in which a handler's send can run.
C6_MisuseRaises ==
    \A c \in Cycles : \A m \in AppMsgs :
      (SendRuns(c) /\ ~cycles[c].disconnected /\ OutOfOrder(c, m)) =>
        /\ send(Resumed(World, c), c, m).ret.res = "raised"
        /\ send(Resumed(World, c), c, m).transport.written = transport.written
        /\ send(Resumed(World, c), c, m).cycles[c].response_started
             = cycles[c].response_started
        /\ send(Resumed(World, c), c, m).cycles[c].response_complete
             = cycles[c].response_complete

\* C6 witness: a send after the complete response has raised to the handler of
\* a cycle that is not disconnected.
C6_Witness ==
    /\ ret.op = "send" /\ ret.res = "raised"
    /\ ret.c \in Cycles
    /\ ~cycles[ret.c].disconnected
    /\ EomWritten(ret.c)
    /\ tasks[ret.c].pc = "run"

\* The body of the request of cycle c as the client sends it.
WireBody(c) == [i \in 1..cycles[c].scope.len |-> ByteToken(cycles[c].scope.r, i)]

IsPrefix(s, t) == Len(s) <= Len(t) /\ s = SubSeq(t, 1, Len(s))

\* C7: a receive() that returns, returns http.disconnect exactly when the
\* cycle is disconnected or response_complete at that moment; otherwise it
\* returns http.request with the buffered body and the current more_body and
\* clears the buffer; what the handler has been given so far, followed by what
\* is buffered, is a prefix of the request body in wire order (so no byte is
\* given twice).
C7_ReceiveReturns ==
    [][\A c \in DOMAIN cycles :
         (ret'.op = "receive" /\ ret'.c = c
            /\ ret'.res \in {"http.disconnect", "http.request"})
         => /\ ret'.res = "http.disconnect"
                 <=> (cycles[c].disconnected \/ cycles[c].response_complete)
            /\ ret'.res = "http.request"
                 => /\ ret'.body = cycles[c].body
                    /\ ret'.more_body = cycles[c].more_body
                    /\ cycles'[c].body = <<>>
                    /\ tasks'[c].delivered = tasks[c].delivered \o ret'.body
            /\ ret'.res = "http.disconnect"
                 => tasks'[c].delivered = tasks[c].delivered
            /\ IsPrefix(tasks'[c].delivered \o cycles'[c].body, WireBody(c))]_vars

\* C7 witness: the handler has been given the three bytes of the body in
\* more than one http.request, the last of them with more_body = false.
C7_Witness ==
    /\ ret.op = "receive" /\ ret.res = "http.request" /\ ret.c = 1
    /\ Len(ret.body) = 1 /\ ~ret.more_body
    /\ Len(tasks[1].delivered) = 3

\* C8 (as stated): no body byte stays buffered with the handler never told:
\* once the handler's task is over, the buffer of its cycle is empty or the
\* handler has been given http.disconnect.
C8_NothingLeftBuffered ==
    \A c \in Cycles :
      tasks[c].pc = "done" => (cycles[c].body = <<>> \/ tasks[c].told)

\* C8 (amended): body bytes buffered while the handler waits in receive() are
\* given to it in an http.request, or it is given http.disconnect, once the
\* event loop runs it again: message_event is set whenever that is the case,
\* and what was given plus what is buffered never repeats or reorders a byte.
C8_WaitingHandlerIsTold ==
    /\ [](\A c \in Cycles :
            /\ (tasks[c].pc = "recv" /\ cycles[c].body # <<>>) => cycles[c].message_event
            /\ IsPrefix(tasks[c].delivered \o cycles[c].body, WireBody(c)))
    /\ \A c \in 1..MaxReqsBody :
         (c \in Cycles /\ tasks[c].pc = "recv" /\ cycles[c].body # <<>>)
           ~> (c \in Cycles /\ (cycles[c].body = <<>> \/ tasks[c].told))

\* C8 witness: the handler was given the first byte, went back to wait in
\* receive(), and the Data branch has buffered the second byte and set the
\* event for it.
C8_Witness ==
    /\ Len(cycles) = 1
    /\ tasks[1].pc = "recv"
    /\ Len(tasks[1].delivered) = 1 /\ Len(cycles[1].body) = 1
    /\ cycles[1].message_event
    /\ ~cycles[1].disconnected

\* C9: a disconnected cycle stays disconnected; its receive() returns
\* http.disconnect at once; its send() returns without raising, writes
\* nothing, leaves response_started and response_complete alone and does not
\* call on_response (total_requests and the keep-alive timer stay).
C9_DisconnectedIsAbsorbing ==
    [][\A c \in DOMAIN cycles :
         cycles[c].disconnected =>
           /\ cycles'[c].disconnected
           /\ (ret'.op = "receive" /\ ret'.c = c)
                => ret'.res = "http.disconnect" /\ tasks'[c].pc = "run"
           /\ (ret'.op = "send" /\ ret'.c = c)
                => /\ ret'.res = "dropped"
                   /\ transport'.written = transport.written
                   /\ cycles'[c].response_started = cycles[c].response_started
                   /\ cycles'[c].response_complete = cycles[c].response_complete
                   /\ server_state'.total_requests = server_state.total_requests
                   /\ proto' = proto]_vars

\* C9 witness: the handler of a disconnected cycle whose response had started
\* has sent an event, which was dropped.
C9_Witness ==
    /\ ret.op = "send" /\ ret.res = "dropped"
    /\ ret.c \in Cycles
    /\ cycles[ret.c].disconnected
    /\ cycles[ret.c].response_started /\ ~cycles[ret.c].response_complete
    /\ tasks[ret.c].pc = "run"

\* C10 (as stated): when the task of a handler is over and the response of its
\* cycle is not complete, the transport is closed.
C10_UnansweredIsClosed ==
    \A c \in Cycles :
      (tasks[c].pc = "done" /\ ~cycles[c].response_complete)
        => (transport.closing \/ transport.lost)

\* C11: a cycle task cancelled in the handler before the response has started
\* writes nothing to the transport when the CancelledError is thrown into it,
\* and leaves the transport closed.
C11_CancellationIsSilent ==
    [][\A c \in DOMAIN tasks :
         (/\ tasks[c].pc = "cancel_app"
          /\ ~cycles[c].response_started
          /\ tasks'[c].pc # "cancel_app")
         => /\ transport'.written = transport.written
            /\ transport'.closing \/ transport'.lost]_vars

\* C12: once forceful is latched the coordinator is not left waiting for a
\* task that runs on: wherever serve() is suspended in a gather() with the
\* latch set, either the gather has its result (the coordinator can go on) or
\* every task it still awaits has been cancelled.
C12_ForcefulStopsWaiting ==
    (server.forceful /\ server.pc \in {"gather", "cleanup_gather"}) =>
       \/ GatherRaises(World) \/ GatherOver(World)
       \/ \A id \in server.awaited :
            IsOver(World, id)
            \/ (id <= MaxReqs /\ tasks[id].pc
                  \in {"cancel_app", "cancel_500", "drain_500_start", "drain_500_body"})
            \/ (id > MaxReqs /\ other.task = "cancel")

\* C13: in a shutdown without the forceful latch, the step that closes the
\* listener and the steps that tell a connection to shut down are taken with
\* no tracked cycle task unfinished, after the quiescence wait and the gather
\* of the tasks.
C13_GracefulOrder ==
    [][(/\ ~server'.forceful
        /\ \/ server.listener = "open" /\ server'.listener = "closed"
           \/ server'.told # server.told)
       => /\ server.pc \in {"main_loop", "quiescence", "gather", "cleanup_gather"}
          /\ server_state'.tasks = {}]_vars

\* C14: serve() does not return from _cleanup while a connection is left in
\* server_state.connections and forceful is not latched.
C14_WaitsForConnections ==
    server.pc = "done" => (server_state.connections = {} \/ server.forceful)

\* The 100 Continue responses cycle c has written.
Continues(c) == {i \in WrittenBy(c) : transport.written[i].k = "100"}

\* C15: a cycle writes at most one 100 Continue, before the start of its
\* response; the step that writes it is a receive() call of the handler of
\* that cycle, for a request with Expect: 100-continue, made with the
\* transport not closing and the response not started. So a handler that
\* starts its response without having called receive() has no 100 Continue
\* written, before or after.
C15_ContinueOnceInReceive ==
    [][\A c \in DOMAIN cycles :
         /\ Cardinality(Continues(c)') <= 1
         /\ \A i \in Continues(c)' : \A j \in WrittenBy(c)' : i <= j
         /\ Continues(c)' # Continues(c)
              => /\ ret'.op = "receive" /\ ret'.c = c
                 /\ tasks[c].pc = "run"
                 /\ cycles[c].scope.expect
                 /\ ~cycles[c].response_started
                 /\ ~(transport.closing \/ transport.lost)]_vars

\* C15 witness: the first receive() of a handler has written the 100 Continue
\* and waits for the body; nothing else is on the wire.
C15_Witness ==
    /\ ret.op = "receive" /\ ret.c = 1 /\ ret.res = "suspended" /\ ret.wrote
    /\ Continues(1) = {1} /\ Len(transport.written) = 1
    /\ ~cycles[1].waiting_for_100_continue

\* What the engine itself has written: the 400 of send_400_response.
Written400(k) ==
    {i \in WrittenBy(NoCycle) : transport.written[i].k = k}

\* C16: after a parser error (their_state = ERROR, which only a
\* RemoteProtocolError of next_event produces) the transport holds exactly one
\* complete 400 written by the engine, with Connection: close, and is closed,
\* whatever the state of the connection's cycle was.
C16_ParserErrorGets400 ==
    conn.their_state = "ERROR" =>
      /\ Cardinality(Written400("start")) = 1
      /\ \A i \in Written400("start") :
           transport.written[i].s = 400 /\ transport.written[i].close
      /\ Cardinality(Written400("data")) = 1
      /\ Cardinality(Written400("eom")) = 1
      /\ transport.closing \/ transport.lost

\* The parser has handed the upgrade request of the client to handle_events.
UpgradeParsed ==
    /\ client.nreq = MaxReqsUpgrade + 1
    /\ \A i \in DOMAIN conn.rbuf : conn.rbuf[i].upgrade = "none"

\* C17: a request with the token upgrade in its Connection header spawns no
\* cycle, and once it is parsed the engine has written a 400 and the
\* transport is closed, whatever the Upgrade header says.
C17_UpgradeRejected ==
    /\ \A c \in Cycles : cycles[c].scope.upgrade = "none"
    /\ UpgradeParsed =>
         /\ Written400("start") # {} /\ Written400("eom") # {}
         /\ transport.closing \/ transport.lost

\* The task of cycle c is suspended in flow.drain().
Draining(c) == tasks[c].pc \in {"drain", "drain_500_start", "drain_500_body"}

\* C18: the gate of drain() is open exactly when write_paused is false; a
\* send() of the handler is suspended in drain() exactly when write_paused is
\* true at the call; a task leaves drain() only with its wait resolved, and a
\* wait is resolved only by a step that takes write_paused from true to false
\* (resume_writing); that step resolves the wait of every task suspended in
\* drain().
C18_DrainFollowsGate ==
    [][/\ flow'.is_writable_event = ~flow'.write_paused
       /\ \A c \in DOMAIN tasks :
            /\ (ret'.op = "send" /\ ret'.c = c /\ tasks[c].pc = "run"
                  /\ tasks'[c].pc \in {"run", "drain"})
                 => (ret'.res = "suspended" <=> flow.write_paused)
            /\ (Draining(c) /\ ~Draining(c)') => tasks[c].woken
            /\ (~tasks[c].woken /\ tasks'[c].woken)
                 => (flow.write_paused /\ ~flow'.write_paused)
            /\ (flow.write_paused /\ ~flow'.write_paused /\ Draining(c))
                 => tasks'[c].woken]_vars

\* C18 witness: the handlers of two cycles were suspended in drain() together
\* and one resume_writing has resolved both waits.
C18_Witness ==
    /\ Len(tasks) = 2
    /\ Draining(1) /\ Draining(2)
    /\ tasks[1].woken /\ tasks[2].woken
    /\ ~flow.write_paused /\ Connected

\* C19: in every reachable state, each of pause_reading, resume_reading,
\* pause_writing and resume_writing called twice in a row gives the state,
\* the number of calls to the transport and the released drain() waits that
\* one call gives.
C19_PauseResumeIdempotent ==
    /\ pause_reading(pause_reading(World)) = pause_reading(World)
    /\ resume_reading(resume_reading(World)) = resume_reading(World)
    /\ pause_writing(pause_writing(World)) = pause_writing(World)
    /\ resume_writing(resume_writing(World)) = resume_writing(World)

\* C19 witness: reads and writes are both paused with a task suspended in
\* drain(), so a resume changes the flow, calls the transport and releases the
\* task; states with neither paused, where a pause does, are there from the
\* start.
C19_Witness ==
    /\ flow.read_paused /\ flow.write_paused
    /\ \E c \in Cycles : Draining(c) /\ ~tasks[c].woken
    /\ resume_reading(World).flow_calls = 1
    /\ resume_writing(World).tasks # tasks
    /\ pause_reading(resume_reading(World)).flow_calls = 2

\* C20: while the keep-alive timer is armed no cycle of the connection is in
\* flight (every cycle has its response complete) and no request body is
\* being received (the parser is not in SEND_BODY on the client side): the
\* connection is between two requests.
C20_TimerOnlyBetweenRequests ==
    proto.timeout_keep_alive_task = "armed" =>
      /\ \A c \in Cycles : cycles[c].response_complete
      /\ conn.their_state # "SEND_BODY"

\* C21: once connection_lost has run, the connection is out of
\* server_state.connections, a cycle still in flight is marked disconnected,
\* and no handler is left waiting: the event of a task suspended in
\* message_event.wait() is set and the wait of a task suspended in
\* flow.drain() is resolved, so each goes on at its next step.
C21_LostWakesHandlers ==
    transport.lost =>
      /\ ThisConn \notin server_state.connections
      /\ proto.cycle # NoCycle =>
           cycles[proto.cycle].disconnected \/ cycles[proto.cycle].response_complete
      /\ \A c \in Cycles :
           /\ tasks[c].pc = "recv" => cycles[c].message_event
           /\ Draining(c) => tasks[c].woken /\ ~flow.write_paused

\* C21 witness: the connection is lost with the handler of the cycle in flight
\* suspended in receive() and the handler of the earlier cycle suspended in
\* drain(); both are released.
C21_Witness ==
    /\ transport.lost
    /\ Len(cycles) = 2
    /\ tasks[1].pc = "drain" /\ tasks[1].woken
    /\ tasks[2].pc = "recv" /\ cycles[2].message_event
    /\ cycles[2].disconnected /\ ~cycles[2].response_complete
    /\ ThisConn \notin server_state.connections

\* C22: the step in which the server calls shutdown() on the connection
\* closes the transport if there is no cycle or the cycle's response is
\* complete, and clears the cycle's keep_alive otherwise; and once the
\* response of a cycle with keep_alive cleared is complete, the transport is
\* closed, the cycle is the last one of the connection and no step arms the
\* keep-alive timer.
C22_ShutdownClosesOrDefers ==
    [][/\ (ThisConn \in server'.told /\ ThisConn \notin server.told) =>
            IF proto.cycle = NoCycle \/ cycles[proto.cycle].response_complete
            THEN transport'.closing \/ transport'.lost
            ELSE ~cycles'[proto.cycle].keep_alive
       /\ \A c \in DOMAIN cycles' :
            (~cycles'[c].keep_alive /\ cycles'[c].response_complete) =>
               /\ transport'.closing \/ transport'.lost
               /\ Len(cycles') = c
               /\ proto'.timeout_keep_alive_task = "armed"
                    => proto.timeout_keep_alive_task = "armed"]_vars

\* The parser holds a pipelined request back (next_event reports PAUSED)
\* while the cycle of the connection is still being served.
PipelinedWaits ==
    /\ conn.their_state = "DONE" /\ conn.rbuf # <<>>
    /\ proto.cycle # NoCycle
    /\ ~cycles[proto.cycle].response_complete

\* C23: while a pipelined request waits in the parser behind a cycle whose
\* response is not complete, reads are paused: read_paused is set and the
\* transport has been told to pause, whatever the handler calls meanwhile.
C23_PausedUntilComplete ==
    PipelinedWaits => flow.read_paused /\ transport.paused

\* C24: the keep-alive timer of an idle period is out of the way once a cycle
\* is in flight: with a cycle whose response is incomplete, no step runs the
\* timeout handler of an armed timer (so the handler cannot close the
\* transport under that cycle).
C24_TimerSparesActiveCycle ==
    [][(/\ proto.timeout_keep_alive_task = "armed"
        /\ \E c \in DOMAIN cycles : ~cycles[c].response_complete)
       => proto'.timeout_keep_alive_task # "fired"]_vars

\* C25: as long as forceful is not latched, no step cancels the task of a
\* cycle: a handler that is running, or suspended in receive(), in drain() or
\* in the canned 500, is left to finish, also when its cycle was spawned
\* while the coordinator was awaiting the tasks it had collected.
C25_GracefulCancelsNothing ==
    [][~server'.forceful =>
         /\ \A c \in DOMAIN tasks :
              tasks'[c].pc \in {"cancel_app", "cancel_500"}
                => tasks[c].pc \in {"cancel_app", "cancel_500"}
         /\ other'.task = "cancel" => other.task = "cancel"]_vars

\* C26: read_paused is true exactly when the last thing the engine told the
\* transport is to pause reading, whichever path paused or resumed it (the
\* body over the high-water mark, a pipelined request, receive(), the end
\* of a response, the end of a request whose response is complete): so
\* flow.pause_reading() is never skipped while the transport is reading.
C26_FlagMatchesTransport ==
    /\ flow.read_paused = transport.paused
    /\ pause_reading(World).transport.paused

\* C26 witness: reads were paused with the body over the high-water mark, and
\* the end of the request has since been parsed with the response complete,
\* where handle_events calls transport.resume_reading() itself.
C26_Witness ==
    /\ Len(cycles) = 1
    /\ Len(cycles[1].body) * SegmentBytes > HIGH_WATER_LIMIT
    /\ Len(cycles[1].body) < MaxLongBody /\ tasks[1].delivered = <<>>
    /\ cycles[1].response_complete
    /\ client.len = MaxLongBody /\ client.rem = 0
    /\ conn.their_state = "IDLE" /\ conn.our_state = "IDLE"
    /\ ~flow.read_paused /\ Connected

====
